---- MODULE Spec2Model ----
(***************************************************************************)
(* Render-state cache of gl-toolkit-rs (src/src/context.rs): the cached    *)
(* State behind INTERNAL_STATE, the driver as the record of what was last  *)
(* pushed to it, and the context operations init, enable, disable, clear,  *)
(* set_clear_color, set_front_face, set_blend_func and set_viewport.       *)
(*                                                                         *)
(* Spec      one thread, one whole call per step: init, enable, disable,   *)
(*           clear, set_front_face, set_blend_func, set_viewport.          *)
(* SpecColor one thread, one whole call per step: set_clear_color, with    *)
(*           init, clear and set_front_face around it.                     *)
(* SpecMT    two threads, the calls split where the code takes and drops   *)
(*           the lock on INTERNAL_STATE.                                   *)
(***************************************************************************)
EXTENDS Integers, Sequences, FiniteSets, TLC

(***************************************************************************)
(* f32 arithmetic.  A non-negative finite f32 is [m, e], value m * 2^e,    *)
(* with m = 0 (and e = 0) or 2^23 <= m < 2^24.  TLC integers are 32 bits   *)
(* wide, so products of mantissas are computed in 12-bit limbs.            *)
(***************************************************************************)
Pow2(n) == 2 ^ n

F32Zero == [m |-> 0, e |-> 0]

RECURSIVE Normalize(_, _)
\* m * 2^e with 0 < m < 2^24 brought to a 24-bit mantissa (exact).
Normalize(m, e) ==
    IF m >= Pow2(23) THEN [m |-> m, e |-> e] ELSE Normalize(2 * m, e - 1)

\* `c as f32` for a byte c (exact).
U8ToF32(c) == IF c = 0 THEN F32Zero ELSE Normalize(c, 0)

\* Round-to-nearest-even of q + (rem / den), 0 <= rem < den, to a mantissa.
RoundMant(q, twiceRem, den, e) ==
    LET up == twiceRem > den \/ (twiceRem = den /\ q % 2 = 1)
        r  == IF up THEN q + 1 ELSE q
    IN  IF r = Pow2(24) THEN [m |-> Pow2(23), e |-> e + 1] ELSE [m |-> r, e |-> e]

RECURSIVE LongDiv(_, _, _, _)
\* n more quotient bits of rem / d: <<quotient, remainder>>.
LongDiv(q, rem, d, n) ==
    IF n = 0 THEN <<q, rem>>
    ELSE LongDiv(2 * q + ((2 * rem) \div d), (2 * rem) % d, d, n - 1)

\* a / b in f32 (b # 0), correctly rounded.
F32Div(a, b) ==
    IF a.m = 0 THEN F32Zero
    ELSE LET bits == IF a.m >= b.m THEN 23 ELSE 24
             qr   == LongDiv(a.m \div b.m, a.m % b.m, b.m, bits)
         IN  RoundMant(qr[1], 2 * qr[2], b.m, a.e - b.e - bits)

\* a * b in f32, correctly rounded: the 48-bit product in limbs of 12 bits.
F32Mul(a, b) ==
    IF a.m = 0 \/ b.m = 0 THEN F32Zero
    ELSE LET B   == Pow2(12)
             a1  == a.m \div B
             a0  == a.m % B
             b1  == b.m \div B
             b0  == b.m % B
             lo  == a0 * b0
             mid == a1 * b0 + a0 * b1 + (lo \div B)
             hi  == a1 * b1 + (mid \div B)
             p0  == lo % B
             p1  == mid % B
             \* product = hi * 2^24 + p1 * 2^12 + p0, 2^22 <= hi < 2^24
             low == p1 * B + p0
         IN  IF hi >= Pow2(23)
             THEN RoundMant(hi, 2 * low, Pow2(24), a.e + b.e + 24)
             ELSE RoundMant(2 * hi + (low \div Pow2(23)), 2 * (low % Pow2(23)), Pow2(23),
                            a.e + b.e + 23)

\* `x as u8`: truncation toward zero, saturating at 255.
F32ToU8(x) ==
    IF x.m = 0 THEN 0
    ELSE IF x.e >= 0 THEN 255
    ELSE IF -x.e > 24 THEN 0
    ELSE LET t == x.m \div Pow2(-x.e) IN IF t > 255 THEN 255 ELSE t

(***************************************************************************)
(* The enums of context.rs and their driver enumerants (get_native).       *)
(***************************************************************************)
Feature ==
    {"Blend", "ColorLogicOp", "CullFace", "DepthClamp", "DepthTest", "Dither",
     "FramebufferSrgb", "LineSmooth", "Multisample", "PolygonOffsetFill",
     "PolygonOffsetLine", "PolygonOffsetPoint", "PolygonSmooth", "RasterizerDiscard",
     "SampleAlphaToCoverage", "SampleAlphaToOne", "SampleCoverage", "SampleShading",
     "SampleMask", "ScissorTest", "StencilTest", "TextureCubeMapSeamless",
     "ProgramPointSize"}

Feature_get_native(f) ==
    CASE f = "Blend" -> "gl::BLEND"
      [] f = "ColorLogicOp" -> "gl::COLOR_LOGIC_OP"
      [] f = "CullFace" -> "gl::CULL_FACE"
      [] f = "DepthClamp" -> "gl::DEPTH_CLAMP"
      [] f = "DepthTest" -> "gl::DEPTH_TEST"
      [] f = "Dither" -> "gl::DITHER"
      [] f = "FramebufferSrgb" -> "gl::FRAMEBUFFER_SRGB"
      [] f = "LineSmooth" -> "gl::LINE_SMOOTH"
      [] f = "Multisample" -> "gl::MULTISAMPLE"
      [] f = "PolygonOffsetFill" -> "gl::POLYGON_OFFSET_FILL"
      [] f = "PolygonOffsetLine" -> "gl::POLYGON_OFFSET_LINE"
      [] f = "PolygonOffsetPoint" -> "gl::POLYGON_OFFSET_POINT"
      [] f = "PolygonSmooth" -> "gl::POLYGON_SMOOTH"
      [] f = "RasterizerDiscard" -> "gl::RASTERIZER_DISCARD"
      [] f = "SampleAlphaToCoverage" -> "gl::SAMPLE_ALPHA_TO_COVERAGE"
      [] f = "SampleAlphaToOne" -> "gl::SAMPLE_ALPHA_TO_ONE"
      [] f = "SampleCoverage" -> "gl::SAMPLE_COVERAGE"
      [] f = "SampleShading" -> "gl::SAMPLE_SHADING"
      [] f = "SampleMask" -> "gl::SAMPLE_MASK"
      [] f = "ScissorTest" -> "gl::SCISSOR_TEST"
      [] f = "StencilTest" -> "gl::STENCIL_TEST"
      [] f = "TextureCubeMapSeamless" -> "gl::TEXTURE_CUBE_MAP_SEAMLESS"
      [] f = "ProgramPointSize" -> "gl::PROGRAM_POINT_SIZE"

FrontFace == {"Clockwise", "CounterClockwise"}

FrontFace_get_native(face) ==
    CASE face = "Clockwise" -> "gl::CW"
      [] face = "CounterClockwise" -> "gl::CCW"

BlendComponent ==
    {"Zero", "One", "SrcColor", "DstColor", "SrcAlpha", "DstAlpha", "ConstColor",
     "ConstAlpha", "SrcAlphaSaturate", "OneMinusSrcColor", "OneMinusDstColor",
     "OneMinusSrcAlpha", "OneMinusDstAlpha", "OneMinusConstColor", "OneMinusConstAlpha"}

BlendComponent_get_native(c) ==
    CASE c = "Zero" -> "gl::ZERO"
      [] c = "One" -> "gl::ONE"
      [] c = "SrcColor" -> "gl::SRC_COLOR"
      [] c = "DstColor" -> "gl::DST_COLOR"
      [] c = "SrcAlpha" -> "gl::SRC_ALPHA"
      [] c = "DstAlpha" -> "gl::DST_ALPHA"
      [] c = "ConstColor" -> "gl::CONSTANT_COLOR"
      [] c = "ConstAlpha" -> "gl::CONSTANT_ALPHA"
      [] c = "SrcAlphaSaturate" -> "gl::SRC_ALPHA_SATURATE"
      [] c = "OneMinusSrcColor" -> "gl::ONE_MINUS_SRC_COLOR"
      [] c = "OneMinusDstColor" -> "gl::ONE_MINUS_DST_COLOR"
      [] c = "OneMinusSrcAlpha" -> "gl::ONE_MINUS_SRC_ALPHA"
      [] c = "OneMinusDstAlpha" -> "gl::ONE_MINUS_DST_COLOR"
      [] c = "OneMinusConstColor" -> "gl::ONE_MINUS_CONSTANT_COLOR"
      [] c = "OneMinusConstAlpha" -> "gl::ONE_MINUS_CONSTANT_ALPHA"

\* The ClearFlag bits: gl::COLOR_BUFFER_BIT, gl::DEPTH_BUFFER_BIT, gl::STENCIL_BUFFER_BIT.
COLOR_BUFFER_BIT == 16384
DEPTH_BUFFER_BIT == 256
STENCIL_BUFFER_BIT == 1024

ClearFlag == {"Color", "Depth", "Stencil"}

ClearFlagValue(flag) ==
    CASE flag = "Color" -> COLOR_BUFFER_BIT
      [] flag = "Depth" -> DEPTH_BUFFER_BIT
      [] flag = "Stencil" -> STENCIL_BUFFER_BIT

RECURSIVE BitOr(_, _)
\* a | b on non-negative integers.
BitOr(a, b) ==
    IF a = 0 THEN b
    ELSE IF b = 0 THEN a
    ELSE 2 * BitOr(a \div 2, b \div 2) + (IF a % 2 = 1 \/ b % 2 = 1 THEN 1 ELSE 0)

RECURSIVE FlagSet_bits(_)
\* FlagSet::bits(): the OR of the values of the flags in the set.
FlagSet_bits(flags) ==
    IF flags = {} THEN 0
    ELSE LET flag == CHOOSE x \in flags : TRUE
         IN  BitOr(ClearFlagValue(flag), FlagSet_bits(flags \ {flag}))

(***************************************************************************)
(* u32 values as two 16-bit halves (TLC integers stop at 2^31 - 1), and    *)
(* the `as i32` cast of set_viewport.                                      *)
(***************************************************************************)
U32(hi, lo) == [hi |-> hi, lo |-> lo]

AsI32(u) == (IF u.hi >= 32768 THEN u.hi - 65536 ELSE u.hi) * 65536 + u.lo

\* Viewport::new()
Viewport_new == [x |-> U32(0, 0), y |-> U32(0, 0), width |-> U32(0, 0), height |-> U32(0, 0)]

\* Color::make
Color_make(r, g, b, a) == [r |-> r, g |-> g, b |-> b, a |-> a]

(***************************************************************************)
(* Inputs the operations are called with.                                  *)
(***************************************************************************)
F32One == Normalize(1, 0)
F32Two == Normalize(1, 1)
F32Half == Normalize(1, -1)
F32Small == Normalize(1, -10)
\* The f32 that the cached byte 127 converts back to.
F32Of127 == F32Div(U8ToF32(127), U8ToF32(255))

\* Its two neighbours, and the largest f32 below 1.0.
F32Below127 == [F32Of127 EXCEPT !.m = @ - 1]
F32Above127 == [F32Of127 EXCEPT !.m = @ + 1]
F32BelowOne == [m |-> Pow2(24) - 1, e |-> -24]

ColorInputs ==
    { <<F32Zero, F32Zero, F32Zero, F32Zero>>,
      <<F32BelowOne, F32Below127, F32Above127, F32Small>>,
      <<F32One, F32Half, F32Zero, F32One>>,
      <<F32One, F32Of127, F32Zero, F32One>>,
      <<F32Half, F32Half, F32Half, F32Half>>,
      <<F32Zero, F32Zero, F32Zero, F32Small>>,
      <<F32Two, F32Zero, F32Zero, F32One>> }

U32Zero == U32(0, 0)
U32One == U32(0, 1)
U32Max == U32(65535, 65535)

ViewportInputs ==
    { <<U32Zero, U32Zero, U32Zero, U32Zero>>,
      <<U32One, U32Zero, U32Zero, U32Zero>>,
      <<U32Zero, U32One, U32Zero, U32Zero>>,
      <<U32Zero, U32Zero, U32One, U32Zero>>,
      <<U32Zero, U32Zero, U32Zero, U32Max>> }

BlendInputs ==
    { <<"SrcAlpha", "OneMinusSrcAlpha">>,
      <<"SrcAlpha", "One">>,
      <<"One", "OneMinusSrcAlpha">> }

FeatureInputs == {"Blend", "DepthTest"}

FlagSetInputs == {{}, {"Color"}, {"Depth", "Stencil"}, {"Color", "Depth", "Stencil"}}

\* init() is not called again once the setup sequence went out this often.
MaxInitSeqs == 2

Threads == {"t1", "t2"}
NoThread == "none"

(***************************************************************************)
(* State.                                                                  *)
(*   st        the State behind INTERNAL_STATE                             *)
(*   drv       the driver: per piece of state, the value last pushed       *)
(*             ("unset" / <<>> while nothing was pushed)                   *)
(*   last      the most recent completed call: operation, arguments, the   *)
(*             cached state it found, its return value, its driver calls,  *)
(*             and whether the call before it was the same call            *)
(*   initSeqs  how many times the driver setup sequence of init was issued *)
(*   lock      the thread holding the mutex of INTERNAL_STATE (SpecMT)     *)
(*   pc        per thread, the call it is in and where (SpecMT)            *)
(*   tst       the State behind INTERNAL_STATE of texture.rs               *)
(*   sst       the State behind INTERNAL_STATE of shader.rs                *)
(*   gl        the driver's objects: names generated and deleted, the      *)
(*             active texture unit, the 2D binding of each unit, the       *)
(*             program in use                                              *)
(*   textures  the Texture values alive, by handle                         *)
(*   stages    the Stage values alive, by handle                           *)
(*   shaders   the Shader values alive, by handle                          *)
(*   vbos      the VBO values alive, by vertex-array handle                *)
(*   rlast     the most recent call on a Texture, Stage, Shader or VBO     *)
(***************************************************************************)
VARIABLES st, drv, last, initSeqs, lock, pc,
          tst, sst, gl, textures, stages, shaders, vbos, rlast

ctxVars == <<st, drv, last, initSeqs, lock, pc>>

resVars == <<tst, sst, gl, textures, stages, shaders, vbos, rlast>>

vars == <<st, drv, last, initSeqs, lock, pc,
          tst, sst, gl, textures, stages, shaders, vbos, rlast>>

\* lazy_static! INTERNAL_STATE
INTERNAL_STATE ==
    [ initialized |-> FALSE,
      front       |-> "CounterClockwise",
      blend_src   |-> "SrcAlpha",
      blend_dst   |-> "OneMinusSrcAlpha",
      clear_color |-> Color_make(0, 0, 0, 0),
      viewport    |-> Viewport_new,
      features    |-> {} ]

Call(fn, args) == [fn |-> fn, args |-> args]

Natives == {Feature_get_native(f) : f \in Feature}

DriverInit ==
    [ front       |-> "unset",
      blend       |-> [src |-> "unset", dst |-> "unset"],
      viewport    |-> <<>>,
      clear_color |-> <<>>,
      caps        |-> [n \in Natives |-> "unset"] ]

\* The effect of one driver call on what the driver last received.
DrvApply(d, c) ==
    CASE c.fn = "FrontFace"  -> [d EXCEPT !.front = c.args[1]]
      [] c.fn = "BlendFunc"  -> [d EXCEPT !.blend = [src |-> c.args[1], dst |-> c.args[2]]]
      [] c.fn = "Viewport"   -> [d EXCEPT !.viewport = c.args]
      [] c.fn = "ClearColor" -> [d EXCEPT !.clear_color = c.args]
      [] c.fn = "Enable"     -> [d EXCEPT !.caps[c.args[1]] = "enabled"]
      [] c.fn = "Disable"    -> [d EXCEPT !.caps[c.args[1]] = "disabled"]
      [] c.fn = "Clear"      -> d

RECURSIVE DrvApplyAll(_, _)
DrvApplyAll(d, calls) ==
    IF calls = <<>> THEN d ELSE DrvApplyAll(DrvApply(d, Head(calls)), Tail(calls))

BoolStr(b) == IF b THEN "true" ELSE "false"

(***************************************************************************)
(* The operations: from the cached state s and the arguments, the new      *)
(* cached state, the return value and the driver calls issued, in order.   *)
(***************************************************************************)
InitSequence ==
    << Call("FrontFace", <<"gl::CCW">>),
       Call("Viewport", <<0, 0, 0, 0>>),
       Call("BlendFunc", <<"gl::SRC_ALPHA", "gl::ONE_MINUS_SRC_ALPHA">>) >>

\* init without `st.initialized = true`.
init_keeps_uninitialized(s) ==
    IF s.initialized = FALSE
    THEN [st |-> s, ret |-> "Ok", calls |-> InitSequence]
    ELSE [st |-> s, ret |-> "AlreadyInitialized", calls |-> <<>>]

init(s) ==
    IF s.initialized = FALSE
    THEN [st |-> [s EXCEPT !.initialized = TRUE], ret |-> "Ok", calls |-> InitSequence]
    ELSE [st |-> s, ret |-> "AlreadyInitialized", calls |-> <<>>]

\* enable with the driver call outside the `if result`.
enable_always_forwards(s, feature) ==
    [ st    |-> [s EXCEPT !.features = @ \cup {feature}],
      ret   |-> BoolStr(feature \notin s.features),
      calls |-> <<Call("Enable", <<Feature_get_native(feature)>>)>> ]

enable(s, feature) ==
    LET result == feature \notin s.features
    IN  [ st    |-> [s EXCEPT !.features = @ \cup {feature}],
          ret   |-> BoolStr(result),
          calls |-> IF result THEN <<Call("Enable", <<Feature_get_native(feature)>>)>>
                    ELSE <<>> ]

\* disable with `features.contains` for `features.remove`.
disable_contains(s, feature) ==
    LET result == feature \in s.features
    IN  [ st    |-> s,
          ret   |-> BoolStr(result),
          calls |-> IF result THEN <<Call("Disable", <<Feature_get_native(feature)>>)>>
                    ELSE <<>> ]

disable(s, feature) ==
    LET result == feature \in s.features
    IN  [ st    |-> [s EXCEPT !.features = @ \ {feature}],
          ret   |-> BoolStr(result),
          calls |-> IF result THEN <<Call("Disable", <<Feature_get_native(feature)>>)>>
                    ELSE <<>> ]

\* clear with gl::COLOR_BUFFER_BIT for `flags.bits()`.
clear_color_bit(s, flags) ==
    [st |-> s, ret |-> "()", calls |-> <<Call("Clear", <<COLOR_BUFFER_BIT>>)>>]

clear(s, flags) ==
    [st |-> s, ret |-> "()", calls |-> <<Call("Clear", <<FlagSet_bits(flags)>>)>>]

\* set_clear_color with `r as u8` for `(r * 255.0) as u8`.
set_clear_color_unscaled(s, r, g, b, a) ==
    LET f255 == U8ToF32(255)
        sr == F32Div(U8ToF32(s.clear_color.r), f255)
        sg == F32Div(U8ToF32(s.clear_color.g), f255)
        sb == F32Div(U8ToF32(s.clear_color.b), f255)
        sa == F32Div(U8ToF32(s.clear_color.a), f255)
    IN  IF sr # r \/ sg # g \/ sb # b \/ sa # a
        THEN [ st    |-> [s EXCEPT !.clear_color =
                             Color_make(F32ToU8(r), F32ToU8(g), F32ToU8(b), F32ToU8(a))],
               ret   |-> "()",
               calls |-> <<Call("ClearColor", <<r, g, b, a>>)>> ]
        ELSE [st |-> s, ret |-> "()", calls |-> <<>>]

set_clear_color(s, r, g, b, a) ==
    LET f255 == U8ToF32(255)
        sr == F32Div(U8ToF32(s.clear_color.r), f255)
        sg == F32Div(U8ToF32(s.clear_color.g), f255)
        sb == F32Div(U8ToF32(s.clear_color.b), f255)
        sa == F32Div(U8ToF32(s.clear_color.a), f255)
    IN  IF sr # r \/ sg # g \/ sb # b \/ sa # a
        THEN [ st    |-> [s EXCEPT !.clear_color =
                             Color_make(F32ToU8(F32Mul(r, f255)), F32ToU8(F32Mul(g, f255)),
                                        F32ToU8(F32Mul(b, f255)), F32ToU8(F32Mul(a, f255)))],
               ret   |-> "()",
               calls |-> <<Call("ClearColor", <<r, g, b, a>>)>> ]
        ELSE [st |-> s, ret |-> "()", calls |-> <<>>]

set_front_face(s, target) ==
    IF s.front # target
    THEN [ st    |-> [s EXCEPT !.front = target],
           ret   |-> "()",
           calls |-> <<Call("FrontFace", <<FrontFace_get_native(target)>>)>> ]
    ELSE [st |-> s, ret |-> "()", calls |-> <<>>]

\* set_blend_func with `&&` for `||`.
set_blend_func_both_differ(s, src, dst) ==
    IF s.blend_src # src /\ s.blend_dst # dst
    THEN [ st    |-> [s EXCEPT !.blend_src = src, !.blend_dst = dst],
           ret   |-> "()",
           calls |-> <<Call("BlendFunc", <<BlendComponent_get_native(src),
                                           BlendComponent_get_native(dst)>>)>> ]
    ELSE [st |-> s, ret |-> "()", calls |-> <<>>]

set_blend_func(s, src, dst) ==
    IF s.blend_src # src \/ s.blend_dst # dst
    THEN [ st    |-> [s EXCEPT !.blend_src = src, !.blend_dst = dst],
           ret   |-> "()",
           calls |-> <<Call("BlendFunc", <<BlendComponent_get_native(src),
                                           BlendComponent_get_native(dst)>>)>> ]
    ELSE [st |-> s, ret |-> "()", calls |-> <<>>]

\* set_viewport with a comparison that leaves the height out.
set_viewport_ignores_height(s, x, y, width, height) ==
    LET viewport == [x |-> x, y |-> y, width |-> width, height |-> height]
    IN  IF s.viewport.x # x \/ s.viewport.y # y \/ s.viewport.width # width
        THEN [ st    |-> [s EXCEPT !.viewport = viewport],
               ret   |-> "()",
               calls |-> <<Call("Viewport", <<AsI32(x), AsI32(y), AsI32(width),
                                              AsI32(height)>>)>> ]
        ELSE [st |-> s, ret |-> "()", calls |-> <<>>]

set_viewport(s, x, y, width, height) ==
    LET viewport == [x |-> x, y |-> y, width |-> width, height |-> height]
    IN  IF s.viewport # viewport
        THEN [ st    |-> [s EXCEPT !.viewport = viewport],
               ret   |-> "()",
               calls |-> <<Call("Viewport", <<AsI32(x), AsI32(y), AsI32(width),
                                              AsI32(height)>>)>> ]
        ELSE [st |-> s, ret |-> "()", calls |-> <<>>]

\* The operation op applied to the arguments args.
Apply(op, args, s) ==
    CASE op = "init"            -> init(s)
      [] op = "enable"          -> enable(s, args[1])
      [] op = "disable"         -> disable(s, args[1])
      [] op = "clear"           -> clear(s, args[1])
      [] op = "set_clear_color" -> set_clear_color(s, args[1], args[2], args[3], args[4])
      [] op = "set_front_face"  -> set_front_face(s, args[1])
      [] op = "set_blend_func"  -> set_blend_func(s, args[1], args[2])
      [] op = "set_viewport"    -> set_viewport(s, args[1], args[2], args[3], args[4])

(***************************************************************************)
(* usize: 64 bits, as USizeLimbs limbs of 8 bits, least significant first. *)
(* `a * b` on usize wraps, or panics in a build with overflow checks.      *)
(***************************************************************************)
USizeLimbs == 8

LimbBase == 256

RECURSIVE ToLimbs(_, _)
ToLimbs(n, k) ==
    IF k = 0 THEN <<>> ELSE <<n % LimbBase>> \o ToLimbs(n \div LimbBase, k - 1)

USize(n) == ToLimbs(n, USizeLimbs)

\* a * d for one limb d: Len(a) + 1 limbs.
RECURSIVE MulLimb(_, _, _, _)
MulLimb(a, d, i, carry) ==
    IF i > Len(a) THEN <<carry>>
    ELSE LET s == a[i] * d + carry
         IN  <<s % LimbBase>> \o MulLimb(a, d, i + 1, s \div LimbBase)

\* a + b for two numbers of the same length, the carry out of the top dropped.
RECURSIVE AddLimbs(_, _, _, _)
AddLimbs(a, b, i, carry) ==
    IF i > Len(a) THEN <<>>
    ELSE LET s == a[i] + b[i] + carry
         IN  <<s % LimbBase>> \o AddLimbs(a, b, i + 1, s \div LimbBase)

\* row * LimbBase^j on n limbs.
Shifted(row, j, n) == [i \in 1..n |-> IF i > j /\ i - j <= Len(row) THEN row[i - j] ELSE 0]

\* a times the limbs j.. of b, each at its place.
RECURSIVE WideMulFrom(_, _, _)
WideMulFrom(a, b, j) ==
    IF j > Len(b) THEN [i \in 1..(Len(a) + Len(b)) |-> 0]
    ELSE IF b[j] = 0 THEN WideMulFrom(a, b, j + 1)
    ELSE AddLimbs(Shifted(MulLimb(a, b[j], 1, 0), j - 1, Len(a) + Len(b)),
                  WideMulFrom(a, b, j + 1), 1, 0)

\* The product in full, Len(a) + Len(b) limbs.
WideMul(a, b) == WideMulFrom(a, b, 1)

IsZero(a) == \A i \in 1..Len(a) : a[i] = 0

\* usize * usize: the low 64 bits, and whether the product needed more.
usize_mul(a, b) ==
    LET wide == WideMul(a, b)
    IN  [ value    |-> SubSeq(wide, 1, USizeLimbs),
          overflow |-> ~IsZero(SubSeq(wide, USizeLimbs + 1, Len(wide))) ]

\* `as i32`: the low 32 bits.
AsGLint(a) == SubSeq(a, 1, 4)

(***************************************************************************)
(* The driver's objects.                                                   *)
(***************************************************************************)
\* The number GetIntegerv(MAX_TEXTURE_IMAGE_UNITS) reports.
MaxTextureUnits == 2

Units == 0..(MaxTextureUnits - 1)

GlObject(kind, name) == [kind |-> kind, name |-> name]

\* Shaders and programs draw their names from one namespace.
Namespace(kind) == IF kind = "program" THEN "shader" ELSE kind

GlInit ==
    [ names       |-> [k \in {"texture", "shader", "vertex_array", "buffer"} |-> 0],
      objects     |-> {},
      deletes     |-> [o \in {} |-> 0],
      active_unit |-> 0,
      bound2d     |-> [u \in Units |-> 0],
      program     |-> 0 ]

\* The name the next Gen* / Create* call of this kind returns.
NextName(g, kind) == g.names[Namespace(kind)] + 1

GlCreate(g, kind, name) ==
    LET o == GlObject(kind, name)
    IN  [g EXCEPT !.names[Namespace(kind)] = name,
                  !.objects = @ \cup {o},
                  !.deletes = [x \in g.objects \cup {o} |->
                                  IF x \in g.objects THEN g.deletes[x] ELSE 0]]

\* Delete* of a name that is no object of that kind is ignored by the driver.
GlDelete(g, kind, name) ==
    LET o == GlObject(kind, name)
    IN  IF o \in g.objects THEN [g EXCEPT !.deletes[o] = @ + 1] ELSE g

\* The effect of one driver call on the driver's objects.
GlApply(g, c) ==
    CASE c.fn = "GenTextures"      -> GlCreate(g, "texture", c.args[1])
      [] c.fn = "CreateShader"     -> GlCreate(g, "shader", c.args[2])
      [] c.fn = "CreateProgram"    -> GlCreate(g, "program", c.args[1])
      [] c.fn = "GenVertexArrays"  -> GlCreate(g, "vertex_array", c.args[1])
      [] c.fn = "GenBuffers"       -> GlCreate(g, "buffer", c.args[1])
      [] c.fn = "DeleteTextures"   ->
            LET d == GlDelete(g, "texture", c.args[1])
            IN  [d EXCEPT !.bound2d = [u \in Units |->
                                          IF g.bound2d[u] = c.args[1] THEN 0
                                          ELSE g.bound2d[u]]]
      [] c.fn = "DeleteShader"       -> GlDelete(g, "shader", c.args[1])
      [] c.fn = "DeleteProgram"      -> GlDelete(g, "program", c.args[1])
      [] c.fn = "DeleteVertexArrays" -> GlDelete(g, "vertex_array", c.args[1])
      [] c.fn = "DeleteBuffers"      -> GlDelete(g, "buffer", c.args[1])
      [] c.fn = "ActiveTexture"    ->
            IF c.args[1] \in Units THEN [g EXCEPT !.active_unit = c.args[1]] ELSE g
      [] c.fn = "BindTexture"      ->
            IF c.args[1] = "gl::TEXTURE_2D"
            THEN [g EXCEPT !.bound2d[g.active_unit] = c.args[2]]
            ELSE g
      [] c.fn = "UseProgram"       -> [g EXCEPT !.program = c.args[1]]
      [] OTHER                     -> g

RECURSIVE GlApplyAll(_, _)
GlApplyAll(g, calls) ==
    IF calls = <<>> THEN g ELSE GlApplyAll(GlApply(g, Head(calls)), Tail(calls))

(***************************************************************************)
(* texture.rs.  An operation takes the cached State s, the driver g where  *)
(* it draws a name, the Texture `self` and the arguments, and gives the    *)
(* new State, the Texture values it leaves (none or one), the return value *)
(* and the driver calls issued, in order.  "panic" is a return by          *)
(* unwinding.                                                              *)
(***************************************************************************)
WrapCoord == {"S", "T"}

WrapCoord_get_native(coord) ==
    CASE coord = "S" -> "gl::TEXTURE_WRAP_S"
      [] coord = "T" -> "gl::TEXTURE_WRAP_T"

ClampMode == {"Edge", "Repeat", "RepeatMirrored"}

ClampMode_get_native(mode) ==
    CASE mode = "Edge"           -> "gl::CLAMP_TO_EDGE"
      [] mode = "Repeat"         -> "gl::REPEAT"
      [] mode = "RepeatMirrored" -> "gl::MIRRORED_REPEAT"

MinFilter ==
    {"Nearest", "Linear", "NearestMipmapNearest", "NearestMipmapLinear",
     "LinearMipmapNearest", "LinearMipmapLinear"}

MinFilter_get_native(filter) ==
    CASE filter = "Nearest"              -> "gl::NEAREST"
      [] filter = "Linear"               -> "gl::LINEAR"
      [] filter = "NearestMipmapNearest" -> "gl::NEAREST_MIPMAP_NEAREST"
      [] filter = "NearestMipmapLinear"  -> "gl::NEAREST_MIPMAP_LINEAR"
      [] filter = "LinearMipmapNearest"  -> "gl::LINEAR_MIPMAP_LINEAR"
      [] filter = "LinearMipmapLinear"   -> "gl::LINEAR_MIPMAP_LINEAR"

MagFilter == {"Nearest", "Linear"}

MagFilter_get_native(filter) ==
    CASE filter = "Nearest" -> "gl::NEAREST"
      [] filter = "Linear"  -> "gl::LINEAR"

TextureUnit_new == [d1_handle |-> 0, d2_handle |-> 0, d3_handle |-> 0]

\* lazy_static! INTERNAL_STATE of texture.rs
TEXTURE_INTERNAL_STATE == [active_unit |-> 0, units |-> <<>>]

\* State::active_unit: `self.units[self.active_unit as usize]`
InUnits(s) == s.active_unit + 1 <= Len(s.units)

active_unit(s) == s.units[s.active_unit + 1]

RECURSIVE UnbindUnits(_, _)
UnbindUnits(i, count) ==
    IF i >= count THEN <<>>
    ELSE << Call("ActiveTexture", <<i>>),
            Call("BindTexture", <<"gl::TEXTURE_1D", 0>>),
            Call("BindTexture", <<"gl::TEXTURE_2D", 0>>),
            Call("BindTexture", <<"gl::TEXTURE_3D", 0>>) >> \o UnbindUnits(i + 1, count)

texture_init(s) ==
    LET count == MaxTextureUnits
    IN  [ tst   |-> [s EXCEPT !.units = [i \in 1..count |-> TextureUnit_new]],
          calls |-> <<Call("GetIntegerv", <<"gl::MAX_TEXTURE_IMAGE_UNITS">>)>>
                        \o UnbindUnits(0, count)
                        \o <<Call("ActiveTexture", <<0>>)>> ]

\* The driver calls of build_texture up to the upload.
BuildTextureSetup(handle) ==
    << Call("GenTextures", <<handle>>),
       Call("BindTexture", <<"gl::TEXTURE_2D", handle>>),
       Call("TexParameteri", <<"gl::TEXTURE_2D", "gl::TEXTURE_WRAP_S", "gl::CLAMP_TO_EDGE">>),
       Call("TexParameteri", <<"gl::TEXTURE_2D", "gl::TEXTURE_WRAP_T", "gl::CLAMP_TO_EDGE">>),
       Call("TexParameteri", <<"gl::TEXTURE_2D", "gl::TEXTURE_MIN_FILTER", "gl::NEAREST">>),
       Call("TexParameteri", <<"gl::TEXTURE_2D", "gl::TEXTURE_MAG_FILTER", "gl::NEAREST">>) >>

\* len is buf.len().  `&buf[0]` panics on an empty buffer, after the arguments
\* before it were evaluated and before TexImage2D is entered.
build_texture(s, g, len, width, height, mipmaps, overflow_checks) ==
    LET area       == usize_mul(width, height)
        total      == usize_mul(area.value, USize(4))
        total_size == total.value
        handle     == NextName(g, "texture")
    IN  IF overflow_checks /\ (area.overflow \/ total.overflow)
        THEN [tst |-> s, objs |-> {}, ret |-> "panic", calls |-> <<>>]
        ELSE IF len # total_size
        THEN [tst |-> s, objs |-> {}, ret |-> "InvalidTextureDimensions", calls |-> <<>>]
        ELSE IF IsZero(len)
        THEN [tst |-> s, objs |-> {}, ret |-> "panic", calls |-> BuildTextureSetup(handle)]
        ELSE [ tst   |-> s,
               objs  |-> {[ mipmaps |-> mipmaps, handle |-> handle,
                            s_clamp |-> "Edge", t_clamp |-> "Edge",
                            min_filter |-> "Nearest", mag_filter |-> "Nearest",
                            width |-> width, height |-> height ]},
               ret   |-> "Ok",
               calls |-> BuildTextureSetup(handle)
                            \o <<Call("TexImage2D", <<AsGLint(width), AsGLint(height)>>)>>
                            \o (IF mipmaps THEN <<Call("GenerateMipmap", <<"gl::TEXTURE_2D">>)>>
                                ELSE <<>>) ]

\* Texture::new: the zero-filled buffer has the length new computed itself;
\* `.unwrap()` turns an Err of build_texture into a panic.
Texture_new(s, g, width, height, overflow_checks) ==
    LET area  == usize_mul(width, height)
        total == usize_mul(area.value, USize(4))
        built == build_texture(s, g, total.value, width, height, FALSE, overflow_checks)
    IN  IF overflow_checks /\ (area.overflow \/ total.overflow)
        THEN [tst |-> s, objs |-> {}, ret |-> "panic", calls |-> <<>>]
        ELSE IF built.ret = "InvalidTextureDimensions"
        THEN [built EXCEPT !.ret = "panic"]
        ELSE built

Texture_make(s, g, len, width, height, mipmaps, overflow_checks) ==
    build_texture(s, g, len, width, height, mipmaps, overflow_checks)

\* Texture::bind.  The cached unit is written before the unit is looked up.
Texture_bind(s, self, unit) ==
    LET switch == s.active_unit # unit
        s1     == IF switch THEN [s EXCEPT !.active_unit = unit] ELSE s
        c1     == IF switch THEN <<Call("ActiveTexture", <<unit>>)>> ELSE <<>>
    IN  IF ~InUnits(s1)
        THEN [tst |-> s1, objs |-> {self}, ret |-> "panic", calls |-> c1]
        ELSE [ tst   |-> s1,
               objs  |-> {self},
               ret   |-> "()",
               calls |-> c1 \o (IF active_unit(s1).d2_handle = self.handle
                                THEN <<Call("BindTexture", <<"gl::TEXTURE_2D", self.handle>>)>>
                                ELSE <<>>) ]

set_clamp(s, self, coord, mode) ==
    LET b == Texture_bind(s, self, 0)
    IN  IF b.ret = "panic" THEN b
        ELSE [ tst   |-> b.tst,
               objs  |-> {IF coord = "S" THEN [self EXCEPT !.s_clamp = mode]
                          ELSE [self EXCEPT !.t_clamp = mode]},
               ret   |-> "()",
               calls |-> b.calls \o <<Call("TexParameteri",
                                          <<"gl::TEXTURE_2D", WrapCoord_get_native(coord),
                                            ClampMode_get_native(mode)>>)>> ]

MipmapFilters ==
    {"NearestMipmapNearest", "NearestMipmapLinear", "LinearMipmapNearest",
     "LinearMipmapLinear"}

\* set_min_filter without the `if !self.mipmaps` return.
set_min_filter_unchecked(s, self, filter) ==
    LET b == Texture_bind(s, self, 0)
    IN  IF b.ret = "panic" THEN b
        ELSE [ tst   |-> b.tst,
               objs  |-> {[self EXCEPT !.min_filter = filter]},
               ret   |-> "Ok",
               calls |-> b.calls \o <<Call("TexParameteri",
                                          <<"gl::TEXTURE_2D", "gl::TEXTURE_MIN_FILTER",
                                            MinFilter_get_native(filter)>>)>> ]

\* set_min_filter with `self.min_filter = filter` ahead of the match.
set_min_filter_records_first(s, self, filter) ==
    LET b == Texture_bind(s, self, 0)
    IN  IF b.ret = "panic" THEN b
        ELSE IF filter \in MipmapFilters /\ ~self.mipmaps
        THEN [tst |-> b.tst, objs |-> {[self EXCEPT !.min_filter = filter]},
              ret |-> "NoMipmaps", calls |-> b.calls]
        ELSE [ tst   |-> b.tst,
               objs  |-> {[self EXCEPT !.min_filter = filter]},
               ret   |-> "Ok",
               calls |-> b.calls \o <<Call("TexParameteri",
                                          <<"gl::TEXTURE_2D", "gl::TEXTURE_MIN_FILTER",
                                            MinFilter_get_native(filter)>>)>> ]

set_min_filter(s, self, filter) ==
    LET b == Texture_bind(s, self, 0)
    IN  IF b.ret = "panic" THEN b
        ELSE IF filter \in MipmapFilters /\ ~self.mipmaps
        THEN [tst |-> b.tst, objs |-> {self}, ret |-> "NoMipmaps", calls |-> b.calls]
        ELSE [ tst   |-> b.tst,
               objs  |-> {[self EXCEPT !.min_filter = filter]},
               ret   |-> "Ok",
               calls |-> b.calls \o <<Call("TexParameteri",
                                          <<"gl::TEXTURE_2D", "gl::TEXTURE_MIN_FILTER",
                                            MinFilter_get_native(filter)>>)>> ]

set_mag_filter(s, self, filter) ==
    LET b == Texture_bind(s, self, 0)
    IN  IF b.ret = "panic" THEN b
        ELSE [ tst   |-> b.tst,
               objs  |-> {[self EXCEPT !.mag_filter = filter]},
               ret   |-> "()",
               calls |-> b.calls \o <<Call("TexParameteri",
                                          <<"gl::TEXTURE_2D", "gl::TEXTURE_MAG_FILTER",
                                            MagFilter_get_native(filter)>>)>> ]

\* impl Drop for Texture
Texture_drop(s, self) ==
    [tst |-> s, objs |-> {}, ret |-> "()",
     calls |-> <<Call("DeleteTextures", <<self.handle>>)>>]

\* lazy_static! INTERNAL_STATE of shader.rs
SHADER_INTERNAL_STATE == [active_program |-> 0]

(***************************************************************************)
(* shader.rs.  The driver decides whether a stage compiles and a program   *)
(* links.  On failure the code reads back all 511 bytes of a buffer it     *)
(* never initialised, of which the driver wrote at most the log: whether   *)
(* `str::from_utf8(&log).unwrap()` returns or panics is drawn with the     *)
(* call (log_utf8).                                                        *)
(***************************************************************************)
StageKind == {"Vertex", "Geometry", "Fragment"}

StageKind_get_native(kind) ==
    CASE kind = "Vertex"   -> "gl::VERTEX_SHADER"
      [] kind = "Geometry" -> "gl::GEOMETRY_SHADER"
      [] kind = "Fragment" -> "gl::FRAGMENT_SHADER"

\* src_nul: the source text holds a 0 byte, which `CString::new(..).unwrap()` refuses.
Stage_new(s, g, kind, src_nul, compiled, log_utf8) ==
    LET handle == NextName(g, "shader")
        build  == << Call("CreateShader", <<StageKind_get_native(kind), handle>>),
                     Call("ShaderSource", <<handle>>),
                     Call("CompileShader", <<handle>>),
                     Call("GetShaderiv", <<handle, "gl::COMPILE_STATUS">>) >>
    IN  IF src_nul
        THEN [sst |-> s, objs |-> {}, ret |-> "panic", calls |-> <<>>]
        ELSE IF ~compiled
        THEN [ sst   |-> s,
               objs  |-> {},
               ret   |-> IF log_utf8 THEN "CompileShaderStageFailed" ELSE "panic",
               calls |-> build \o <<Call("GetShaderInfoLog", <<handle>>)>> ]
        ELSE [sst |-> s, objs |-> {[handle |-> handle]}, ret |-> "Ok", calls |-> build]

\* impl Drop for Stage
Stage_drop(s, self) ==
    [sst |-> s, objs |-> {}, ret |-> "()",
     calls |-> <<Call("DeleteShader", <<self.handle>>)>>]

\* Shader::new; list is the Vec of stages.  The log of a failed link is asked for
\* with GetShaderInfoLog on the program's handle.
Shader_new(s, g, list, linked, log_utf8) ==
    LET handle == NextName(g, "program")
        build  == <<Call("CreateProgram", <<handle>>)>>
                      \o [i \in 1..Len(list) |-> Call("AttachShader", <<handle, list[i].handle>>)]
                      \o << Call("LinkProgram", <<handle>>),
                            Call("GetProgramiv", <<handle, "gl::LINK_STATUS">>) >>
    IN  IF ~linked
        THEN [ sst   |-> s,
               objs  |-> {},
               ret   |-> IF log_utf8 THEN "LinkShaderProgramFailed" ELSE "panic",
               calls |-> build \o <<Call("GetShaderInfoLog", <<handle>>)>> ]
        ELSE [sst |-> s, objs |-> {[handle |-> handle]}, ret |-> "Ok", calls |-> build]

Shader_bind(s, self) ==
    IF s.active_program = self.handle
    THEN [ sst   |-> [s EXCEPT !.active_program = self.handle],
           objs  |-> {self},
           ret   |-> "()",
           calls |-> <<Call("UseProgram", <<self.handle>>)>> ]
    ELSE [sst |-> s, objs |-> {self}, ret |-> "()", calls |-> <<>>]

\* impl Drop for Shader
Shader_drop(s, self) ==
    [sst |-> s, objs |-> {}, ret |-> "()",
     calls |-> <<Call("DeleteProgram", <<self.handle>>)>>]

(***************************************************************************)
(* vbo.rs.  A vertex type T is its size_of and its attrs(); `vertices` is  *)
(* the number of vertices; `indices` is <<>> for None and <<n>> for a list *)
(* of n indices.                                                           *)
(***************************************************************************)
BufferMode ==
    {"StaticDraw", "StaticRead", "StaticCopy", "DynamicDraw", "DynamicRead", "DynamicCopy",
     "StreamDraw", "StreamRead", "StreamCopy"}

BufferMode_to_raw_enum(mode) ==
    CASE mode = "StaticDraw"  -> "gl::STATIC_DRAW"
      [] mode = "StaticRead"  -> "gl::STATIC_READ"
      [] mode = "StaticCopy"  -> "gl::STATIC_COPY"
      [] mode = "DynamicDraw" -> "gl::DYNAMIC_DRAW"
      [] mode = "DynamicRead" -> "gl::DYNAMIC_READ"
      [] mode = "DynamicCopy" -> "gl::DYNAMIC_COPY"
      [] mode = "StreamDraw"  -> "gl::STREAM_DRAW"
      [] mode = "StreamRead"  -> "gl::STREAM_READ"
      [] mode = "StreamCopy"  -> "gl::STREAM_COPY"

AttributeKind ==
    {"Byte", "Short", "Int", "UnsignedByte", "UnsignedShort", "UnsignedInt", "Half", "Float",
     "Double", "Fixed"}

AttributeKind_to_raw_enum(kind) ==
    CASE kind = "Byte"          -> "gl::BYTE"
      [] kind = "Short"         -> "gl::SHORT"
      [] kind = "Int"           -> "gl::INT"
      [] kind = "UnsignedByte"  -> "gl::UNSIGNED_BYTE"
      [] kind = "UnsignedShort" -> "gl::UNSIGNED_SHORT"
      [] kind = "UnsignedInt"   -> "gl::UNSIGNED_INT"
      [] kind = "Half"          -> "gl::HALF_FLOAT"
      [] kind = "Float"         -> "gl::FLOAT"
      [] kind = "Double"        -> "gl::DOUBLE"
      [] kind = "Fixed"         -> "gl::FIXED"

\* mem::size_of of GLchar, GLshort, GLint, GLbyte, GLushort, GLuint, GLhalf, GLfloat,
\* GLdouble, GLfixed
AttributeKind_size(kind) ==
    CASE kind = "Byte"          -> 1
      [] kind = "Short"         -> 2
      [] kind = "Int"           -> 4
      [] kind = "UnsignedByte"  -> 1
      [] kind = "UnsignedShort" -> 2
      [] kind = "UnsignedInt"   -> 4
      [] kind = "Half"          -> 2
      [] kind = "Float"         -> 4
      [] kind = "Double"        -> 8
      [] kind = "Fixed"         -> 4

PrimitiveKind == {"Points", "Triangles", "TriangleFan", "TriangleStrip"}

PrimitiveKind_to_raw_enum(kind) ==
    CASE kind = "Points"        -> "gl::POINTS"
      [] kind = "Triangles"     -> "gl::TRIANGLES"
      [] kind = "TriangleFan"   -> "gl::TRIANGLE_FAN"
      [] kind = "TriangleStrip" -> "gl::TRIANGLE_STRIP"

\* The attribute calls for attrs[i..], the i-th at the byte offset `offset`.
RECURSIVE DescribeAttributes(_, _, _, _)
DescribeAttributes(attrs, stride, i, offset) ==
    IF i > Len(attrs) THEN <<>>
    ELSE LET attr       == attrs[i]
             normalized == IF attr[1] THEN "gl::TRUE" ELSE "gl::FALSE"
         IN  << Call("EnableVertexAttribArray", <<i - 1>>),
                Call("VertexAttribPointer",
                     <<i - 1, attr[2], AttributeKind_to_raw_enum(attr[3]), normalized,
                       stride, offset>>) >>
                \o DescribeAttributes(attrs, stride, i + 1,
                                      offset + AttributeKind_size(attr[3]) * attr[2])

\* build_vertex_buffer with `offset += attr.1`.
build_vertex_buffer_counts_components(g, mode, T, vertices) ==
    LET RECURSIVE Describe(_, _)
        Describe(i, offset) ==
            IF i > Len(T.attrs) THEN <<>>
            ELSE << Call("EnableVertexAttribArray", <<i - 1>>),
                    Call("VertexAttribPointer",
                         <<i - 1, T.attrs[i][2], AttributeKind_to_raw_enum(T.attrs[i][3]),
                           IF T.attrs[i][1] THEN "gl::TRUE" ELSE "gl::FALSE",
                           T.size, offset>>) >>
                    \o Describe(i + 1, offset + T.attrs[i][2])
        vbo == NextName(g, "buffer")
    IN  IF vertices = 0
        THEN [handle |-> 0, ret |-> "panic", calls |-> <<>>]
        ELSE [ handle |-> vbo,
               ret    |-> "Ok",
               calls  |-> << Call("GenBuffers", <<vbo>>),
                             Call("BindBuffer", <<"gl::ARRAY_BUFFER", vbo>>),
                             Call("BufferData", <<"gl::ARRAY_BUFFER", vertices * T.size,
                                                  BufferMode_to_raw_enum(mode)>>) >>
                             \o Describe(1, 0) ]

\* `&vertices[0]` panics on an empty Vec, before the first driver call.
build_vertex_buffer(g, mode, T, vertices) ==
    LET stride     == T.size
        total_size == vertices * stride
        vbo        == NextName(g, "buffer")
    IN  IF vertices = 0
        THEN [handle |-> 0, ret |-> "panic", calls |-> <<>>]
        ELSE [ handle |-> vbo,
               ret    |-> "Ok",
               calls  |-> << Call("GenBuffers", <<vbo>>),
                             Call("BindBuffer", <<"gl::ARRAY_BUFFER", vbo>>),
                             Call("BufferData", <<"gl::ARRAY_BUFFER", total_size,
                                                  BufferMode_to_raw_enum(mode)>>) >>
                             \o DescribeAttributes(T.attrs, stride, 1, 0) ]

\* `&indices[0]` panics on an empty Vec, before the first driver call.
build_index_buffer(g, len) ==
    LET total_size == len * 2
        ibo        == NextName(g, "buffer")
    IN  IF len = 0
        THEN [handle |-> 0, ret |-> "panic", calls |-> <<>>]
        ELSE [ handle |-> ibo,
               ret    |-> "Ok",
               calls  |-> << Call("GenBuffers", <<ibo>>),
                             Call("BindBuffer", <<"gl::ELEMENT_ARRAY_BUFFER", ibo>>),
                             Call("BufferData", <<"gl::ELEMENT_ARRAY_BUFFER", total_size,
                                                  "gl::STATIC_DRAW">>) >> ]

VBO_new(g, mode, primitive_kind, T, vertices, indices) ==
    LET vao   == NextName(g, "vertex_array")
        open  == << Call("GenVertexArrays", <<vao>>), Call("BindVertexArray", <<vao>>) >>
        vb    == build_vertex_buffer(GlApplyAll(g, open), mode, T, vertices)
        ib    == build_index_buffer(GlApplyAll(g, open \o vb.calls), indices[1])
    IN  IF vb.ret = "panic"
        THEN [objs |-> {}, ret |-> "panic", calls |-> open \o vb.calls]
        ELSE IF indices # <<>> /\ ib.ret = "panic"
        THEN [objs |-> {}, ret |-> "panic", calls |-> open \o vb.calls \o ib.calls]
        ELSE [ objs  |-> {[ mode |-> mode, primitive_kind |-> primitive_kind,
                            handle |-> vao, vbo_handle |-> vb.handle,
                            ibo_handle |-> IF indices # <<>> THEN ib.handle ELSE 0,
                            index_count |-> IF indices # <<>> THEN indices[1] ELSE 0,
                            vertex_count |-> vertices ]},
               ret   |-> "Ok",
               calls |-> open \o vb.calls \o (IF indices # <<>> THEN ib.calls ELSE <<>>)
                             \o <<Call("BindVertexArray", <<0>>)>> ]

VBO_render(self) ==
    LET kind == PrimitiveKind_to_raw_enum(self.primitive_kind)
    IN  [ objs  |-> {self},
          ret   |-> "()",
          calls |-> <<Call("BindVertexArray", <<self.handle>>)>>
                        \o (IF self.index_count > 0
                            THEN <<Call("DrawElements",
                                        <<kind, self.index_count, "gl::UNSIGNED_SHORT", 0>>)>>
                            ELSE <<Call("DrawArrays", <<kind, 0, self.vertex_count>>)>>)
                        \o <<Call("BindVertexArray", <<0>>)>> ]

\* impl Drop for VBO
VBO_drop(self) ==
    [objs |-> {}, ret |-> "()", calls |-> <<Call("DeleteVertexArrays", <<self.handle>>)>>]

\* Nothing was called on a Texture, Stage, Shader or VBO yet.
NoCall ==
    [op |-> "none", args |-> <<>>, self |-> {},
     pre |-> [tst |-> TEXTURE_INTERNAL_STATE, sst |-> SHADER_INTERNAL_STATE, gl |-> GlInit],
     ret |-> "none", calls |-> <<>>, objs |-> {}]

Completed(op, args, pre, ret, calls) ==
    [op |-> op, args |-> args, pre |-> pre, ret |-> ret, calls |-> calls,
     repeat |-> (last.op = op /\ last.args = args)]

CountInit(op, calls) ==
    initSeqs' = IF op = "init" /\ calls # <<>> THEN initSeqs + 1 ELSE initSeqs

Idle == [phase |-> "idle", op |-> "none", args |-> <<>>, pre |-> INTERNAL_STATE,
         ret |-> "none", calls |-> <<>>]

Init ==
    /\ st = INTERNAL_STATE
    /\ drv = DriverInit
    /\ last = [op |-> "none", args |-> <<>>, pre |-> INTERNAL_STATE, ret |-> "none",
               calls |-> <<>>, repeat |-> FALSE]
    /\ initSeqs = 0
    /\ lock = NoThread
    /\ pc = [t \in Threads |-> Idle]
    /\ tst = TEXTURE_INTERNAL_STATE
    /\ sst = SHADER_INTERNAL_STATE
    /\ gl = GlInit
    /\ textures = {}
    /\ stages = {}
    /\ shaders = {}
    /\ vbos = {}
    /\ rlast = NoCall

(***************************************************************************)
(* One thread: every call runs from its first line to its return.          *)
(***************************************************************************)
Do(op, args) ==
    LET r == Apply(op, args, st)
    IN  /\ st' = r.st
        /\ drv' = DrvApplyAll(drv, r.calls)
        /\ last' = Completed(op, args, st, r.ret, r.calls)
        /\ CountInit(op, r.calls)

CallInit ==
    /\ initSeqs < MaxInitSeqs
    /\ Do("init", <<>>)
    /\ UNCHANGED <<lock, pc>>
    /\ UNCHANGED resVars

CallEnable ==
    \E f \in FeatureInputs :
        /\ Do("enable", <<f>>)
        /\ UNCHANGED <<lock, pc>>
        /\ UNCHANGED resVars

CallDisable ==
    \E f \in FeatureInputs :
        /\ Do("disable", <<f>>)
        /\ UNCHANGED <<lock, pc>>
        /\ UNCHANGED resVars

CallClear ==
    \E flags \in FlagSetInputs :
        /\ Do("clear", <<flags>>)
        /\ UNCHANGED <<lock, pc>>
        /\ UNCHANGED resVars

CallSetClearColor ==
    \E c \in ColorInputs :
        /\ Do("set_clear_color", c)
        /\ UNCHANGED <<lock, pc>>
        /\ UNCHANGED resVars

CallSetFrontFace ==
    \E face \in FrontFace :
        /\ Do("set_front_face", <<face>>)
        /\ UNCHANGED <<lock, pc>>
        /\ UNCHANGED resVars

CallSetBlendFunc ==
    \E b \in BlendInputs :
        /\ Do("set_blend_func", b)
        /\ UNCHANGED <<lock, pc>>
        /\ UNCHANGED resVars

CallSetViewport ==
    \E v \in ViewportInputs :
        /\ Do("set_viewport", v)
        /\ UNCHANGED <<lock, pc>>
        /\ UNCHANGED resVars

Next ==
    \/ CallInit
    \/ CallEnable
    \/ CallDisable
    \/ CallClear
    \/ CallSetFrontFace
    \/ CallSetBlendFunc
    \/ CallSetViewport

Spec == Init /\ [][Next]_vars

NextColor ==
    \/ CallSetClearColor
    \/ CallInit
    \/ CallClear
    \/ CallSetFrontFace

SpecColor == Init /\ [][NextColor]_vars

(***************************************************************************)
(* Two threads.  A MutexGuard bound to `st` is held to the end of the      *)
(* function (init, set_front_face); the temporary guard of enable and      *)
(* disable is dropped at the end of the statement that inserts or removes, *)
(* before the driver call; clear takes no lock.                            *)
(***************************************************************************)
HoldsGuardToReturn == {"init", "set_front_face"}
DropsGuardBeforeCall == {"enable", "disable"}

MTFeatureInputs == {"Blend"}
MTFlagSetInputs == {{"Color"}}

MTLockingCalls ==
    {<<"init", <<>>>>}
        \cup {<<"enable", <<f>>>> : f \in MTFeatureInputs}
        \cup {<<"disable", <<f>>>> : f \in MTFeatureInputs}
        \cup {<<"set_front_face", <<face>>>> : face \in FrontFace}

\* INTERNAL_STATE.lock().unwrap()
MTLock(t) ==
    \E c \in MTLockingCalls :
        /\ pc[t].phase = "idle"
        /\ lock = NoThread
        /\ c[1] = "init" => initSeqs < MaxInitSeqs
        /\ lock' = t
        /\ pc' = [pc EXCEPT ![t] = [Idle EXCEPT !.phase = "locked", !.op = c[1], !.args = c[2]]]
        /\ UNCHANGED <<st, drv, last, initSeqs>>
        /\ UNCHANGED resVars

\* The body of init and of a setter, run under the guard; the guard drops at return.
MTGuardedBody(t) ==
    /\ pc[t].phase = "locked"
    /\ pc[t].op \in HoldsGuardToReturn
    /\ LET r == Apply(pc[t].op, pc[t].args, st)
       IN  /\ st' = r.st
           /\ drv' = DrvApplyAll(drv, r.calls)
           /\ last' = Completed(pc[t].op, pc[t].args, st, r.ret, r.calls)
           /\ CountInit(pc[t].op, r.calls)
    /\ lock' = NoThread
    /\ pc' = [pc EXCEPT ![t] = Idle]
    /\ UNCHANGED resVars

\* enable / disable, first statement: insert or remove under the temporary guard.
MTInsertOrRemove(t) ==
    /\ pc[t].phase = "locked"
    /\ pc[t].op \in DropsGuardBeforeCall
    /\ LET r == Apply(pc[t].op, pc[t].args, st)
       IN  /\ st' = r.st
           /\ pc' = [pc EXCEPT ![t] = [@ EXCEPT !.phase = "unlocked", !.pre = st,
                                                 !.ret = r.ret, !.calls = r.calls]]
    /\ lock' = NoThread
    /\ UNCHANGED <<drv, last, initSeqs>>
    /\ UNCHANGED resVars

\* enable / disable, the rest: `if result { gl::Enable / gl::Disable }; result`.
MTDriverCall(t) ==
    /\ pc[t].phase = "unlocked"
    /\ drv' = DrvApplyAll(drv, pc[t].calls)
    /\ last' = Completed(pc[t].op, pc[t].args, pc[t].pre, pc[t].ret, pc[t].calls)
    /\ pc' = [pc EXCEPT ![t] = Idle]
    /\ UNCHANGED <<st, initSeqs, lock>>
    /\ UNCHANGED resVars

\* clear: the driver call, no lock taken.
MTClear(t) ==
    \E flags \in MTFlagSetInputs :
        /\ pc[t].phase = "idle"
        /\ LET r == clear(st, flags)
           IN  /\ drv' = DrvApplyAll(drv, r.calls)
               /\ last' = Completed("clear", <<flags>>, st, r.ret, r.calls)
        /\ UNCHANGED <<st, initSeqs, lock, pc>>
        /\ UNCHANGED resVars

NextMT ==
    \E t \in Threads :
        \/ MTLock(t)
        \/ MTGuardedBody(t)
        \/ MTInsertOrRemove(t)
        \/ MTDriverCall(t)
        \/ MTClear(t)

SpecMT == Init /\ [][NextMT]_vars

(***************************************************************************)
(* Textures.  lib.rs init loads the driver's entry points, so no Texture   *)
(* is built before it ran; a panic unwinds the calling thread, and no call *)
(* follows it.  Whether `*` on usize panics on overflow is a property of   *)
(* the build, drawn with each constructor call.                            *)
(***************************************************************************)
MaxTextures == 2

\* 2^62 and 2^62 + 1
Huge == [i \in 1..USizeLimbs |-> IF i = USizeLimbs THEN 64 ELSE 0]
HugePlusOne == [Huge EXCEPT ![1] = 1]

TextureDims ==
    { <<USize(0), USize(1)>>, <<USize(1), USize(1)>>, <<USize(2), USize(1)>>,
      <<Huge, USize(1)>>, <<HugePlusOne, USize(1)>> }

BufferLens == {USize(0), USize(4), USize(8)}

UnitInputs == 0..MaxTextureUnits

Running == rlast.ret # "panic"

Ready == st.initialized /\ Running

shader_init == [calls |-> <<Call("UseProgram", <<0>>)>>]

\* lib.rs init: `context::init(loader)?; texture::init(); shader::init();`
CallLibInit ==
    /\ Running
    /\ LET r == init(st)
           t == texture_init(tst)
       IN  /\ st' = r.st
           /\ drv' = DrvApplyAll(drv, r.calls)
           /\ last' = Completed("init", <<>>, st, r.ret, r.calls)
           /\ CountInit("init", r.calls)
           /\ tst' = IF r.ret = "Ok" THEN t.tst ELSE tst
           /\ gl' = IF r.ret = "Ok" THEN GlApplyAll(gl, t.calls \o shader_init.calls) ELSE gl
    /\ UNCHANGED <<lock, pc, sst, textures, stages, shaders, vbos, rlast>>

Before == [tst |-> tst, sst |-> sst, gl |-> gl]

\* A call on the Texture values `self` (none for a constructor) with result r.
TextureCall(op, args, self, r) ==
    /\ tst' = r.tst
    /\ gl' = GlApplyAll(gl, r.calls)
    /\ textures' = (textures \ self) \cup r.objs
    /\ rlast' = [op |-> op, args |-> args, self |-> self, pre |-> Before,
                 ret |-> r.ret, calls |-> r.calls, objs |-> r.objs]

TexNew ==
    \E d \in TextureDims, oc \in BOOLEAN :
        /\ Ready
        /\ NextName(gl, "texture") <= MaxTextures
        /\ TextureCall("new", <<d[1], d[2]>>, {}, Texture_new(tst, gl, d[1], d[2], oc))
        /\ UNCHANGED <<sst, stages, shaders, vbos>>
        /\ UNCHANGED ctxVars

TexMake ==
    \E len \in BufferLens, d \in TextureDims, mipmaps \in BOOLEAN, oc \in BOOLEAN :
        /\ Ready
        /\ NextName(gl, "texture") <= MaxTextures
        /\ TextureCall("make", <<len, d[1], d[2], mipmaps>>, {},
                       Texture_make(tst, gl, len, d[1], d[2], mipmaps, oc))
        /\ UNCHANGED <<sst, stages, shaders, vbos>>
        /\ UNCHANGED ctxVars

TexBind ==
    \E t \in textures, unit \in UnitInputs :
        /\ Ready
        /\ TextureCall("bind", <<unit>>, {t}, Texture_bind(tst, t, unit))
        /\ UNCHANGED <<sst, stages, shaders, vbos>>
        /\ UNCHANGED ctxVars

\* The textures SpecSampler builds.
MaxSamplerTextures == 1

\* Texture::make(&TEXTURE_DATA, 1, 1, mipmaps) with four bytes of data.
TexMakePixel ==
    \E mipmaps \in BOOLEAN, oc \in BOOLEAN :
        /\ Ready
        /\ NextName(gl, "texture") <= MaxSamplerTextures
        /\ TextureCall("make", <<USize(4), USize(1), USize(1), mipmaps>>, {},
                       Texture_make(tst, gl, USize(4), USize(1), USize(1), mipmaps, oc))
        /\ UNCHANGED <<sst, stages, shaders, vbos>>
        /\ UNCHANGED ctxVars

ClampInputs == {<<"T", "RepeatMirrored">>}

TexSetClamp ==
    \E t \in textures, c \in ClampInputs :
        /\ Ready
        /\ TextureCall("set_clamp", c, {t}, set_clamp(tst, t, c[1], c[2]))
        /\ UNCHANGED <<sst, stages, shaders, vbos>>
        /\ UNCHANGED ctxVars

TexSetMinFilter ==
    \E t \in textures, filter \in MinFilter :
        /\ Ready
        /\ TextureCall("set_min_filter", <<filter>>, {t}, set_min_filter(tst, t, filter))
        /\ UNCHANGED <<sst, stages, shaders, vbos>>
        /\ UNCHANGED ctxVars

TexSetMagFilter ==
    \E t \in textures, filter \in MagFilter :
        /\ Ready
        /\ TextureCall("set_mag_filter", <<filter>>, {t}, set_mag_filter(tst, t, filter))
        /\ UNCHANGED <<sst, stages, shaders, vbos>>
        /\ UNCHANGED ctxVars

TexDrop ==
    \E t \in textures :
        /\ Ready
        /\ TextureCall("drop", <<>>, {t}, Texture_drop(tst, t))
        /\ UNCHANGED <<sst, stages, shaders, vbos>>
        /\ UNCHANGED ctxVars

NextTexture ==
    \/ CallLibInit
    \/ TexNew
    \/ TexMake
    \/ TexBind
    \/ TexSetClamp
    \/ TexDrop

SpecTexture == Init /\ [][NextTexture]_vars

NextSampler ==
    \/ CallLibInit
    \/ TexMakePixel
    \/ TexBind
    \/ TexSetMinFilter
    \/ TexSetMagFilter

SpecSampler == Init /\ [][NextSampler]_vars

(***************************************************************************)
(* Shaders.                                                                *)
(***************************************************************************)
\* The names drawn from the namespace of shaders and programs.
MaxShaderNames == 3

\* The stages of a set, by ascending handle.
RECURSIVE ByHandle(_)
ByHandle(set) ==
    IF set = {} THEN <<>>
    ELSE LET first == CHOOSE x \in set : \A y \in set : x.handle <= y.handle
         IN  <<first>> \o ByHandle(set \ {first})

ShaderCall(op, args, self, r) ==
    /\ sst' = r.sst
    /\ gl' = GlApplyAll(gl, r.calls)
    /\ rlast' = [op |-> op, args |-> args, self |-> self, pre |-> Before,
                 ret |-> r.ret, calls |-> r.calls, objs |-> r.objs]

StageNew ==
    \E kind \in StageKind, src_nul \in BOOLEAN, compiled \in BOOLEAN, log_utf8 \in BOOLEAN :
        /\ Ready
        /\ NextName(gl, "shader") <= MaxShaderNames
        /\ LET r == Stage_new(sst, gl, kind, src_nul, compiled, log_utf8)
           IN  /\ ShaderCall("Stage::new", <<kind, src_nul, compiled>>, {}, r)
               /\ stages' = stages \cup r.objs
        /\ UNCHANGED <<tst, textures, shaders, vbos>>
        /\ UNCHANGED ctxVars

StageDrop ==
    \E stage \in stages :
        /\ Ready
        /\ ShaderCall("Stage::drop", <<>>, {stage}, Stage_drop(sst, stage))
        /\ stages' = stages \ {stage}
        /\ UNCHANGED <<tst, textures, shaders, vbos>>
        /\ UNCHANGED ctxVars

ShaderNew ==
    \E set \in SUBSET stages, linked \in BOOLEAN, log_utf8 \in BOOLEAN :
        /\ Ready
        /\ NextName(gl, "program") <= MaxShaderNames
        /\ LET r == Shader_new(sst, gl, ByHandle(set), linked, log_utf8)
           IN  /\ ShaderCall("Shader::new", <<ByHandle(set), linked>>, {}, r)
               /\ shaders' = shaders \cup r.objs
        /\ UNCHANGED <<tst, textures, stages, vbos>>
        /\ UNCHANGED ctxVars

ShaderBind ==
    \E shader \in shaders :
        /\ Ready
        /\ ShaderCall("Shader::bind", <<>>, {shader}, Shader_bind(sst, shader))
        /\ UNCHANGED <<tst, textures, stages, shaders, vbos>>
        /\ UNCHANGED ctxVars

ShaderDrop ==
    \E shader \in shaders :
        /\ Ready
        /\ ShaderCall("Shader::drop", <<>>, {shader}, Shader_drop(sst, shader))
        /\ shaders' = shaders \ {shader}
        /\ UNCHANGED <<tst, textures, stages, vbos>>
        /\ UNCHANGED ctxVars

NextShader ==
    \/ CallLibInit
    \/ StageNew
    \/ StageDrop
    \/ ShaderNew
    \/ ShaderBind
    \/ ShaderDrop

SpecShader == Init /\ [][NextShader]_vars

(***************************************************************************)
(* Vertex buffers.  The vertex types are those of builtin.rs and one with  *)
(* attributes of other element kinds.                                      *)
(***************************************************************************)
MaxVBOs == 2

BasicVertex == [size |-> 12, attrs |-> <<<<FALSE, 3, "Float">>>>]

ColorVertex ==
    [size |-> 16, attrs |-> <<<<FALSE, 3, "Float">>, <<TRUE, 4, "UnsignedByte">>>>]

TextureVertex == [size |-> 20, attrs |-> <<<<FALSE, 3, "Float">>, <<FALSE, 2, "Float">>>>]

\* #[repr(C, packed)] struct { f64, [i16; 2], [i8; 3], u16 (half), i32 (fixed) }
MixedVertex ==
    [size |-> 21,
     attrs |-> << <<FALSE, 1, "Double">>, <<TRUE, 2, "Short">>, <<FALSE, 3, "Byte">>,
                  <<FALSE, 1, "Half">>, <<FALSE, 1, "Fixed">> >>]

VertexTypes == {BasicVertex, ColorVertex, TextureVertex, MixedVertex}

VertexCounts == {0, 1, 4}

IndexInputs == {<<>>, <<0>>, <<6>>}

BufferModeInputs == {"StaticDraw", "DynamicDraw"}

PrimitiveInputs == {"Triangles", "Points"}

VBOCall(op, args, self, r) ==
    /\ gl' = GlApplyAll(gl, r.calls)
    /\ vbos' = (vbos \ self) \cup r.objs
    /\ rlast' = [op |-> op, args |-> args, self |-> self, pre |-> Before,
                 ret |-> r.ret, calls |-> r.calls, objs |-> r.objs]

VBONew ==
    \E mode \in BufferModeInputs, kind \in PrimitiveInputs, T \in VertexTypes,
       vertices \in VertexCounts, indices \in IndexInputs :
        /\ Ready
        /\ NextName(gl, "vertex_array") <= MaxVBOs
        /\ VBOCall("VBO::new", <<mode, kind, T, vertices, indices>>, {},
                   VBO_new(gl, mode, kind, T, vertices, indices))
        /\ UNCHANGED <<tst, sst, textures, stages, shaders>>
        /\ UNCHANGED ctxVars

VBORender ==
    \E vbo \in vbos :
        /\ Ready
        /\ VBOCall("VBO::render", <<>>, {vbo}, VBO_render(vbo))
        /\ UNCHANGED <<tst, sst, textures, stages, shaders>>
        /\ UNCHANGED ctxVars

VBODrop ==
    \E vbo \in vbos :
        /\ Ready
        /\ VBOCall("VBO::drop", <<>>, {vbo}, VBO_drop(vbo))
        /\ UNCHANGED <<tst, sst, textures, stages, shaders>>
        /\ UNCHANGED ctxVars

NextVBO ==
    \/ CallLibInit
    \/ VBONew
    \/ VBORender
    \/ VBODrop

SpecVBO == Init /\ [][NextVBO]_vars

(***************************************************************************)
(* Vertex layouts.  Every builtin vertex type is a #[repr(C, packed)]      *)
(* struct: its fields follow each other without padding.  vertex.rs        *)
(* declares the trait Vertex of vbo.rs and the same three type names.      *)
(***************************************************************************)
\* The scalars of the field types.
Vector2 == <<"f32", "f32">>

Vector3 == <<"f32", "f32", "f32">>

Color == <<"u8", "u8", "u8", "u8">>

ScalarBytes == [f32 |-> 4, u8 |-> 1]

\* The bytes of one field.
RECURSIVE FieldBytes(_)
FieldBytes(field) ==
    IF field = <<>> THEN 0 ELSE ScalarBytes[Head(field)] + FieldBytes(Tail(field))

\* The byte offset of the i-th field of a packed struct.
RECURSIVE offset_of(_, _)
offset_of(fields, i) ==
    IF i <= 1 THEN 0 ELSE offset_of(fields, i - 1) + FieldBytes(fields[i - 1])

\* mem::size_of of a packed struct.
size_of(fields) == offset_of(fields, Len(fields) + 1)

vertex_BasicVertex ==
    [size |-> size_of(<<Vector2>>), attrs |-> <<<<FALSE, 2, "Float">>>>]

vertex_ColorVertex ==
    [size  |-> size_of(<<Vector3, Color>>),
     attrs |-> <<<<FALSE, 2, "Float">>, <<TRUE, 4, "UnsignedByte">>>>]

vertex_TextureVertex ==
    [size  |-> size_of(<<Vector3, Vector2>>),
     attrs |-> <<<<FALSE, 3, "Float">>, <<FALSE, 2, "Float">>>>]

\* The struct declarations, each with its implementation of Vertex.
VertexStructs ==
    { [file |-> "builtin.rs", name |-> "BasicVertex", fields |-> <<Vector3>>,
       vertex |-> BasicVertex],
      [file |-> "builtin.rs", name |-> "ColorVertex", fields |-> <<Vector3, Color>>,
       vertex |-> ColorVertex],
      [file |-> "builtin.rs", name |-> "TextureVertex", fields |-> <<Vector3, Vector2>>,
       vertex |-> TextureVertex],
      [file |-> "vertex.rs", name |-> "BasicVertex", fields |-> <<Vector2>>,
       vertex |-> vertex_BasicVertex],
      [file |-> "vertex.rs", name |-> "ColorVertex", fields |-> <<Vector3, Color>>,
       vertex |-> vertex_ColorVertex],
      [file |-> "vertex.rs", name |-> "TextureVertex", fields |-> <<Vector3, Vector2>>,
       vertex |-> vertex_TextureVertex] }

\* VBO::new::<V>: the last argument names the struct the vertices are values of.
VertexNew ==
    \E V \in VertexStructs, kind \in PrimitiveInputs, vertices \in VertexCounts,
       indices \in IndexInputs :
        /\ Ready
        /\ NextName(gl, "vertex_array") <= MaxVBOs
        /\ VBOCall("VBO::new", <<"StaticDraw", kind, V.vertex, vertices, indices, V>>, {},
                   VBO_new(gl, "StaticDraw", kind, V.vertex, vertices, indices))
        /\ UNCHANGED <<tst, sst, textures, stages, shaders>>
        /\ UNCHANGED ctxVars

NextVertex ==
    \/ CallLibInit
    \/ VertexNew
    \/ VBORender
    \/ VBODrop

SpecVertex == Init /\ [][NextVertex]_vars

(***************************************************************************)
(* The blend function alone, over the components that name the             *)
(* destination's colour and alpha.                                         *)
(***************************************************************************)
BlendSrcInputs == {"One", "SrcAlpha"}

BlendDstInputs == {"OneMinusSrcAlpha", "OneMinusDstColor", "OneMinusDstAlpha"}

CallSetBlendPair ==
    \E src \in BlendSrcInputs, dst \in BlendDstInputs :
        /\ Do("set_blend_func", <<src, dst>>)
        /\ UNCHANGED <<lock, pc>>
        /\ UNCHANGED resVars

NextBlend ==
    \/ CallInit
    \/ CallSetBlendPair
    \/ CallSetFrontFace

SpecBlend == Init /\ [][NextBlend]_vars

(***************************************************************************)
(* Properties.                                                             *)
(***************************************************************************)
OneCall(calls, fn, args) ==
    /\ Len(calls) = 1
    /\ calls[1].fn = fn
    /\ calls[1].args = args

ViewportOf(args) == [x |-> args[1], y |-> args[2], width |-> args[3], height |-> args[4]]

\* C1: after any sequence of init, enable, disable, set_front_face, set_blend_func
\* and set_viewport calls, each cached field (front face, blend source and
\* destination, viewport, enabled-feature set) equals the value most recently pushed
\* to the driver for it (the viewport compared through the `as i32` cast).
C1_CacheEqualsLastPushed ==
    /\ drv.front # "unset" => drv.front = FrontFace_get_native(st.front)
    /\ drv.blend.src # "unset" =>
          /\ drv.blend.src = BlendComponent_get_native(st.blend_src)
          /\ drv.blend.dst = BlendComponent_get_native(st.blend_dst)
    /\ drv.viewport # <<>> =>
          drv.viewport = <<AsI32(st.viewport.x), AsI32(st.viewport.y),
                           AsI32(st.viewport.width), AsI32(st.viewport.height)>>
    /\ \A f \in Feature :
          (drv.caps[Feature_get_native(f)] = "enabled") <=> (f \in st.features)

\* C2: enable(f) returns true and issues exactly one driver Enable call if and only
\* if f was not in the enabled set before the call; otherwise it returns false, issues
\* no driver call and leaves the set unchanged; an enable(f) that directly follows an
\* enable(f) forwards nothing.
C2_EnableForwardsOnInsertOnly ==
    last.op = "enable" =>
        LET f == last.args[1]
        IN  /\ IF f \notin last.pre.features
               THEN /\ last.ret = "true"
                    /\ OneCall(last.calls, "Enable", <<Feature_get_native(f)>>)
                    /\ st.features = last.pre.features \cup {f}
               ELSE /\ last.ret = "false"
                    /\ last.calls = <<>>
                    /\ st.features = last.pre.features
            /\ last.repeat => last.calls = <<>>

C2_Witness ==
    /\ last.op = "enable"
    /\ last.repeat
    /\ last.ret = "false"
    /\ last.args[1] \in st.features

\* C3: disable(f) returns true and issues exactly one driver Disable call if and only
\* if f was in the enabled set before the call, and then f is no longer in the set;
\* otherwise it returns false and issues no driver call; the membership of every
\* other feature is unchanged either way.
C3_DisableForwardsOnRemoveOnly ==
    last.op = "disable" =>
        LET f == last.args[1]
        IN  /\ IF f \in last.pre.features
               THEN /\ last.ret = "true"
                    /\ OneCall(last.calls, "Disable", <<Feature_get_native(f)>>)
               ELSE /\ last.ret = "false"
                    /\ last.calls = <<>>
            /\ f \notin st.features
            /\ \A g \in Feature \ {f} : (g \in st.features) <=> (g \in last.pre.features)

C3_Witness ==
    /\ last.op = "disable"
    /\ last.ret = "true"
    /\ st.features # {}

\* C4: when both threads have finished their enable / disable calls, the driver's
\* enabled state of every feature equals its membership in the cached set.
C4_DriverMatchesCacheWhenIdle ==
    (\A t \in Threads : pc[t].phase = "idle") =>
        \A f \in Feature :
            (drv.caps[Feature_get_native(f)] = "enabled") <=> (f \in st.features)

\* C5: the init() call that finds the context uninitialized returns Ok, sets
\* initialized and issues the setup sequence (front face CCW, viewport 0,0,0,0, blend
\* func SrcAlpha/OneMinusSrcAlpha); every init() after it returns AlreadyInitialized
\* and issues no driver call; whatever the threads do, the setup sequence is issued at
\* most once, and exactly once from the first init() on.
C5_InitOnceInv ==
    /\ initSeqs <= 1
    /\ st.initialized <=> initSeqs = 1
    /\ last.op = "init" =>
          /\ st.initialized
          /\ IF last.pre.initialized
             THEN last.ret = "AlreadyInitialized" /\ last.calls = <<>>
             ELSE /\ last.ret = "Ok"
                  /\ Len(last.calls) = 3
                  /\ last.calls[1] = Call("FrontFace", <<"gl::CCW">>)
                  /\ last.calls[2] = Call("Viewport", <<0, 0, 0, 0>>)
                  /\ last.calls[3] =
                        Call("BlendFunc", <<"gl::SRC_ALPHA", "gl::ONE_MINUS_SRC_ALPHA">>)

C5_InitOnce == [](C5_InitOnceInv) /\ [][st.initialized => st'.initialized]_vars

C5_Witness ==
    /\ last.op = "init"
    /\ last.ret = "AlreadyInitialized"
    /\ initSeqs = 1
    /\ \E t \in Threads : pc[t].phase = "unlocked"

\* C6: set_viewport(x,y,w,h) with the cached tuple issues no driver call and leaves
\* the cache unchanged; with a tuple that differs in x, y, width or height it issues
\* exactly one driver Viewport call and the cached viewport becomes the tuple.
C6_ViewportForwardsOnChangeOnly ==
    last.op = "set_viewport" =>
        IF last.pre.viewport = ViewportOf(last.args)
        THEN last.calls = <<>> /\ st = last.pre
        ELSE /\ Len(last.calls) = 1
             /\ last.calls[1].fn = "Viewport"
             /\ st.viewport = ViewportOf(last.args)

C6_Witness ==
    /\ last.op = "set_viewport"
    /\ Len(last.calls) = 1
    /\ last.pre.viewport.x = last.args[1]
    /\ last.pre.viewport.y = last.args[2]
    /\ last.pre.viewport.width = last.args[3]
    /\ last.pre.viewport.height # last.args[4]

\* C7: set_front_face(face) and set_blend_func(src,dst) issue their driver call and
\* update the cache when the requested value differs from the cached one (for
\* set_blend_func, when src or dst differs), and only then; a call with the cached
\* value issues no driver call and leaves every field of the render state unchanged.
C7_FrontAndBlendForwardOnChangeOnly ==
    /\ last.op = "set_front_face" =>
          IF last.pre.front = last.args[1]
          THEN last.calls = <<>> /\ st = last.pre
          ELSE /\ Len(last.calls) = 1
               /\ last.calls[1].fn = "FrontFace"
               /\ st.front = last.args[1]
    /\ last.op = "set_blend_func" =>
          IF last.pre.blend_src = last.args[1] /\ last.pre.blend_dst = last.args[2]
          THEN last.calls = <<>> /\ st = last.pre
          ELSE /\ Len(last.calls) = 1
               /\ last.calls[1].fn = "BlendFunc"
               /\ st.blend_src = last.args[1]
               /\ st.blend_dst = last.args[2]

C7_Witness ==
    /\ last.op = "set_blend_func"
    /\ last.pre.blend_src = last.args[1]
    /\ last.pre.blend_dst # last.args[2]
    /\ Len(last.calls) = 1

\* The byte a requested channel quantizes to.
Quantize(x) == F32ToU8(F32Mul(x, U8ToF32(255)))

QuantizeQuad(args) ==
    Color_make(Quantize(args[1]), Quantize(args[2]), Quantize(args[3]), Quantize(args[4]))

\* C8: calling set_clear_color twice in a row with the same arguments issues at most
\* one driver call: the second call, whose arguments quantize to the byte quad the
\* first one cached, issues no ClearColor call and leaves the cache unchanged.
C8_RepeatedClearColorIsElided ==
    (/\ last.op = "set_clear_color"
     /\ last.repeat
     /\ QuantizeQuad(last.args) = last.pre.clear_color)
        => (last.calls = <<>> /\ st = last.pre)

\* 255 * x as <<whole part, whether a fraction is left>>, exactly, for 0 < x <= 2.
Times255(x) ==
    LET W   == Pow2(16)
        low == 255 * (x.m % W)
        hi  == 255 * (x.m \div W) + (low \div W)
        lo  == low % W
        k   == -x.e
    IN  IF k >= 32 THEN <<0, TRUE>>
        ELSE <<hi \div Pow2(k - 16), (hi % Pow2(k - 16)) # 0 \/ lo # 0>>

\* 0 <= x <= 1
InUnit(x) == x.m = 0 \/ x.e < -23 \/ (x.e = -23 /\ x.m = Pow2(23))

\* |c / 255 - x| <= 1 / 255, that is c - 1 <= 255 * x <= c + 1.
Within1Of255(c, x) ==
    IF x.m = 0 THEN c <= 1
    ELSE LET p == Times255(x)
         IN  /\ p[1] >= c - 1
             /\ p[1] < c + 1 \/ (p[1] = c + 1 /\ ~p[2])

\* C9: after set_clear_color(r,g,b,a) with every channel in [0,1], each cached byte
\* channel divided by 255 is within 1/255 of the channel passed.
C9_ClearColorWithinOneStep ==
    (last.op = "set_clear_color" /\ \A i \in 1..4 : InUnit(last.args[i])) =>
        /\ Within1Of255(st.clear_color.r, last.args[1])
        /\ Within1Of255(st.clear_color.g, last.args[2])
        /\ Within1Of255(st.clear_color.b, last.args[3])
        /\ Within1Of255(st.clear_color.a, last.args[4])

C9_Witness ==
    /\ last.op = "set_clear_color"
    /\ \A i \in 1..4 : InUnit(last.args[i])
    /\ last.calls # <<>>
    /\ last.args[2] = F32Half
    /\ st.clear_color.g = 127
    /\ st.clear_color.r = 255

\* C10: every clear(flags) issues exactly one driver Clear call, whose argument has
\* the bit of each given flag and no other bit, and leaves every field of the cached
\* render state unchanged.
C10_ClearForwardsAlways ==
    last.op = "clear" =>
        /\ Len(last.calls) = 1
        /\ last.calls[1].fn = "Clear"
        /\ last.calls[1].args =
              << (IF "Color" \in last.args[1] THEN COLOR_BUFFER_BIT ELSE 0)
                 + (IF "Depth" \in last.args[1] THEN DEPTH_BUFFER_BIT ELSE 0)
                 + (IF "Stencil" \in last.args[1] THEN STENCIL_BUFFER_BIT ELSE 0) >>
        /\ st = last.pre

C10_Witness ==
    /\ last.op = "clear"
    /\ last.repeat
    /\ last.args[1] = {"Depth", "Stencil"}
    /\ st.features # {}
    /\ st.initialized

(***************************************************************************)
(* Textures.                                                               *)
(***************************************************************************)
\* The value the last call was made on.
Self == CHOOSE t \in rlast.self : TRUE

\* len = width * height * 4 in the integers, with no wrapping.
ExactlyFourBytesAPixel(len, width, height) ==
    LET exact == WideMul(WideMul(width, height), USize(4))
    IN  /\ SubSeq(exact, 1, USizeLimbs) = len
        /\ IsZero(SubSeq(exact, USizeLimbs + 1, Len(exact)))

\* C11: whenever Texture::make is called with a buffer whose length differs from
\* width * height * 4, it returns InvalidTextureDimensions, issues no driver call and
\* produces no Texture.
C11_MismatchedBufferRejected ==
    (rlast.op = "make"
        /\ ~ExactlyFourBytesAPixel(rlast.args[1], rlast.args[2], rlast.args[3]))
    => /\ rlast.ret = "InvalidTextureDimensions"
       /\ rlast.calls = <<>>
       /\ rlast.objs = {}

\* C12: every call of Texture::new(width, height) returns a Texture of those
\* dimensions; none ends in an error or a panic.
C12_NewHasNoFailurePath ==
    rlast.op = "new"
    => /\ rlast.ret = "Ok"
       /\ \E t \in rlast.objs : t.width = rlast.args[1] /\ t.height = rlast.args[2]

C14_RefusedMinFilterLeavesTexture ==
    (rlast.op = "set_min_filter" /\ rlast.ret = "NoMipmaps")
    => /\ rlast.objs = rlast.self
       /\ rlast.self \subseteq textures
       /\ \A i \in 1..Len(rlast.calls) : rlast.calls[i].fn # "TexParameteri"

\* The refused call had to switch the unit first, on a texture whose mag filter was
\* changed before.
C14_Witness ==
    /\ rlast.op = "set_min_filter"
    /\ rlast.ret = "NoMipmaps"
    /\ Self.mag_filter = "Linear"
    /\ rlast.calls # <<>>

\* C15: after bind(unit) returned, the driver's active unit is `unit`, the 2D texture
\* bound at it is the texture's handle, and the cached active unit is the driver's.
C15_BindMakesTextureCurrent ==
    (rlast.op = "bind" /\ rlast.ret = "()")
    => /\ gl.active_unit = rlast.args[1]
       /\ gl.bound2d[rlast.args[1]] = Self.handle
       /\ tst.active_unit = gl.active_unit

(***************************************************************************)
(* Shaders.                                                                *)
(***************************************************************************)
Issued(fn) == \E i \in 1..Len(rlast.calls) : rlast.calls[i].fn = fn

\* C16: after bind() returned on a shader, the shader is the driver's program in use
\* and the cached active program is its handle; UseProgram was skipped only if the
\* shader was the program in use before.
C16_BindMakesShaderActive ==
    rlast.op = "Shader::bind"
    => /\ gl.program = Self.handle
       /\ sst.active_program = Self.handle
       /\ ~Issued("UseProgram") => rlast.pre.gl.program = Self.handle

\* C20: Stage::new returns CompileShaderStageFailed exactly when the driver reported
\* that the stage did not compile, Shader::new returns LinkShaderProgramFailed exactly
\* when the driver reported that the program did not link; a failed call produces no
\* value and leaves the active program, cached and in the driver, as it was.
C20_FailureIffDriverReportsIt ==
    /\ rlast.op = "Stage::new"
        => /\ rlast.ret = "CompileShaderStageFailed" <=> (~rlast.args[2] /\ ~rlast.args[3])
           /\ rlast.ret = "CompileShaderStageFailed"
                => /\ rlast.objs = {}
                   /\ sst = rlast.pre.sst
                   /\ gl.program = rlast.pre.gl.program
    /\ rlast.op = "Shader::new"
        => /\ rlast.ret = "LinkShaderProgramFailed" <=> ~rlast.args[2]
           /\ rlast.ret = "LinkShaderProgramFailed"
                => /\ rlast.objs = {}
                   /\ sst = rlast.pre.sst
                   /\ gl.program = rlast.pre.gl.program

(***************************************************************************)
(* Vertex buffers.                                                         *)
(***************************************************************************)
IsDraw(c) == c.fn \in {"DrawElements", "DrawArrays"}

\* C17: render() issues exactly one draw call: for a VBO built with an index sequence
\* an indexed draw of index_count 16-bit unsigned indices from offset 0, for one built
\* without indices a non-indexed draw of vertex_count vertices from 0; and construction
\* with a supplied index sequence completes and records the sequence's length as
\* index_count.
C17_OneDrawAndIndexedConstructionCompletes ==
    /\ rlast.op = "VBO::render"
        => LET draws == SelectSeq(rlast.calls, IsDraw)
               kind  == PrimitiveKind_to_raw_enum(Self.primitive_kind)
           IN  /\ Len(draws) = 1
               /\ draws[1] = IF Self.ibo_handle # 0
                             THEN Call("DrawElements",
                                       <<kind, Self.index_count, "gl::UNSIGNED_SHORT", 0>>)
                             ELSE Call("DrawArrays", <<kind, 0, Self.vertex_count>>)
    /\ (rlast.op = "VBO::new" /\ rlast.args[4] > 0 /\ rlast.args[5] # <<>>)
        => /\ rlast.ret = "Ok"
           /\ \E vbo \in rlast.objs : vbo.index_count = rlast.args[5][1]

IsAttributeCall(c) == c.fn \in {"EnableVertexAttribArray", "VertexAttribPointer"}

\* The bytes of one element of each kind.
ElementBytes ==
    [ Byte |-> 1, UnsignedByte |-> 1, Short |-> 2, UnsignedShort |-> 2, Half |-> 2,
      Int |-> 4, UnsignedInt |-> 4, Float |-> 4, Fixed |-> 4, Double |-> 8 ]

\* The sum of component count * element bytes over the attributes before the i-th.
RECURSIVE BytesBefore(_, _)
BytesBefore(attrs, i) ==
    IF i <= 1 THEN 0
    ELSE BytesBefore(attrs, i - 1) + attrs[i - 1][2] * ElementBytes[attrs[i - 1][3]]

\* C18: building the vertex store enables the i-th attribute of the list at slot i and
\* describes it there with its component count, element kind and normalize flag, the
\* stride sizeof(vertex) and the byte offset summed over the attributes before it; for
\* [(false,3,Float),(true,4,UnsignedByte)] the offsets are 0 and 12.
C18_AttributesAtRunningOffsets ==
    (rlast.op = "VBO::new" /\ rlast.args[4] > 0)
    => LET T     == rlast.args[3]
           attrs == T.attrs
           calls == SelectSeq(rlast.calls, IsAttributeCall)
       IN  /\ Len(calls) = 2 * Len(attrs)
           /\ \A i \in 1..Len(attrs) :
                /\ calls[2 * i - 1] = Call("EnableVertexAttribArray", <<i - 1>>)
                /\ calls[2 * i] =
                     Call("VertexAttribPointer",
                          <<i - 1, attrs[i][2], AttributeKind_to_raw_enum(attrs[i][3]),
                            IF attrs[i][1] THEN "gl::TRUE" ELSE "gl::FALSE",
                            T.size, BytesBefore(attrs, i)>>)
           /\ attrs = <<<<FALSE, 3, "Float">>, <<TRUE, 4, "UnsignedByte">>>>
                => calls[2].args[6] = 0 /\ calls[4].args[6] = 12

\* A ColorVertex store was built: its colour is described at slot 1, offset 12.
C18_Witness ==
    /\ rlast.op = "VBO::new"
    /\ rlast.ret = "Ok"
    /\ rlast.args[3] = ColorVertex
    /\ \E i \in 1..Len(rlast.calls) :
          rlast.calls[i] = Call("VertexAttribPointer",
                                <<1, 4, "gl::UNSIGNED_BYTE", "gl::TRUE", 16, 12>>)

(***************************************************************************)
(* Handles.                                                                *)
(***************************************************************************)
\* The driver object o is a handle of a wrapper value that is alive.
Owned(o) ==
    CASE o.kind = "texture"      -> \E t \in textures : t.handle = o.name
      [] o.kind = "shader"       -> \E stage \in stages : stage.handle = o.name
      [] o.kind = "program"      -> \E shader \in shaders : shader.handle = o.name
      [] o.kind = "vertex_array" -> \E vbo \in vbos : vbo.handle = o.name
      [] o.kind = "buffer"       ->
            \E vbo \in vbos : vbo.vbo_handle = o.name \/ vbo.ibo_handle = o.name

\* C19: as long as no call panicked, every handle a constructor created was deleted at
\* most once, and exactly once if no living wrapper owns it (its constructor failed or
\* its wrapper was destroyed).
C19_HandlesReleasedExactlyOnce ==
    Running
    => \A o \in gl.objects :
          /\ gl.deletes[o] <= 1
          /\ ~Owned(o) => gl.deletes[o] = 1

(***************************************************************************)
(* Vertex layouts.                                                         *)
(***************************************************************************)
IsPointerCall(c) == c.fn = "VertexAttribPointer"

\* C21: for every builtin vertex type of builtin.rs and of vertex.rs, the attribute list
\* matches the packed layout: the i-th attribute is described at the byte offset of the
\* i-th field, with as many components as the field has, and the attributes' sizes
\* (component count * element bytes) sum to sizeof(vertex), the stride.
C21_AttributeListMatchesPackedLayout ==
    (rlast.op = "VBO::new" /\ rlast.ret = "Ok" /\ Len(rlast.args) = 6)
    => LET V        == rlast.args[6]
           attrs    == V.vertex.attrs
           pointers == SelectSeq(rlast.calls, IsPointerCall)
       IN  /\ Len(pointers) = Len(V.fields)
           /\ \A i \in 1..Len(pointers) :
                /\ pointers[i].args[6] = offset_of(V.fields, i)
                /\ pointers[i].args[2] = Len(V.fields[i])
                /\ pointers[i].args[5] = size_of(V.fields)
           /\ BytesBefore(attrs, Len(attrs) + 1) = size_of(V.fields)

(***************************************************************************)
(* The blend function.                                                     *)
(***************************************************************************)
\* C22: the mapping from BlendComponent to the driver enumerant is injective: a
\* set_blend_func call that reaches the driver (the requested pair differs from the
\* cached pair) passes a driver pair different from the one last pushed, and the driver
\* pair it leaves is the image of the cached pair and of no other pair of components.
C22_DistinctPairsReachDriverDistinct ==
    [][ (last' # last /\ last'.op = "set_blend_func" /\ last'.calls # <<>>)
        => /\ drv'.blend # drv.blend
           /\ \A src, dst \in BlendComponent :
                (/\ BlendComponent_get_native(src) = drv'.blend.src
                 /\ BlendComponent_get_native(dst) = drv'.blend.dst)
                => (src = st'.blend_src /\ dst = st'.blend_dst) ]_vars

(***************************************************************************)
(* The texture-unit table.                                                 *)
(***************************************************************************)
BindingCalls == {"bind", "set_clamp", "set_min_filter", "set_mag_filter"}

\* C23: Texture::bind(unit), and set_clamp, set_min_filter and set_mag_filter through
\* bind(0), never index the texture-unit table out of range: whatever the unit, the
\* cached active unit is a valid index into the table when the call reads the table, and
\* the call returns.
C23_ActiveUnitIndexesTable ==
    rlast.op \in BindingCalls
    => /\ InUnits(tst)
       /\ rlast.ret # "panic"

====
